---- MODULE Spec2Model ----
(***************************************************************************)
(* Model of the client / project / file registry of the architectural      *)
(* viewer server: the in-memory `clients` object, the uploads directory    *)
(* (active area) and uploads/backup (backup area), and the admin and       *)
(* lookup request handlers.                                                *)
(*                                                                         *)
(* JavaScript strings on which the code computes (ids, names, file names,  *)
(* descriptions) are sequences of one-character strings.  Strings the code *)
(* only stores (contact, uploaded date, MIME type, messages) are TLA+      *)
(* strings.  JavaScript objects used as maps are sequences of entries in   *)
(* own-key order (insertion order; the ids used here are not integer-like, *)
(* so no key is reordered).  Uploads are assumed to be within the multer   *)
(* fileSize limit.                                                         *)
(***************************************************************************)
EXTENDS Integers, Sequences, FiniteSets, TLC

VARIABLES clients, active, backup, clock, stored, linked, req, res

vars == <<clients, active, backup, clock, stored, linked, req, res>>

----------------------------------------------------------------------------
(* Bounds                                                                  *)

MaxClock == 2
MaxUploads == 2
MaxNameLen == 3
MaxFileNameLen == 5

----------------------------------------------------------------------------
(* Characters and strings                                                  *)

LowerLetters == <<"a","b","c","d","e","f","g","h","i","j","k","l","m","n","o","p","q","r","s","t","u","v","w","x","y","z">>

UpperLetters == <<"A","B","C","D","E","F","G","H","I","J","K","L","M","N","O","P","Q","R","S","T","U","V","W","X","Y","Z">>

Digits == <<"0","1","2","3","4","5","6","7","8","9">>

Range(s) == {s[i] : i \in 1..Len(s)}

\* the characters matched by \s
WhitespaceChars == {" ", "\t", "\n"}

IsSpace(c) == c \in WhitespaceChars

\* the characters matched by \w
IsWordChar(c) == c \in Range(LowerLetters) \cup Range(UpperLetters) \cup Range(Digits) \cup {"_"}

IsAlphaNumeric(c) == c \in Range(LowerLetters) \cup Range(UpperLetters) \cup Range(Digits)

LowerChar(c) ==
    IF \E i \in 1..26 : UpperLetters[i] = c
    THEN LowerLetters[CHOOSE i \in 1..26 : UpperLetters[i] = c]
    ELSE c

UpperChar(c) ==
    IF \E i \in 1..26 : LowerLetters[i] = c
    THEN UpperLetters[CHOOSE i \in 1..26 : LowerLetters[i] = c]
    ELSE c

toLowerCase(s) == [i \in 1..Len(s) |-> LowerChar(s[i])]

toUpperCase(s) == [i \in 1..Len(s) |-> UpperChar(s[i])]

RECURSIVE DropWhile(_, _)
\* s without its longest prefix of characters in set cs
DropWhile(s, cs) ==
    IF s = <<>> THEN <<>>
    ELSE IF Head(s) \in cs THEN DropWhile(Tail(s), cs)
    ELSE s

RECURSIVE ReplaceRuns(_, _, _)
\* s.replace(/[cs]+/g, r): every maximal run of characters of cs becomes r
ReplaceRuns(s, cs, r) ==
    IF s = <<>> THEN <<>>
    ELSE IF Head(s) \in cs THEN r \o ReplaceRuns(DropWhile(Tail(s), cs), cs, r)
    ELSE <<Head(s)>> \o ReplaceRuns(Tail(s), cs, r)

\* s.replace(/-/g, ' ')
ReplaceHyphens(s) == [i \in 1..Len(s) |-> IF s[i] = "-" THEN " " ELSE s[i]]

\* s.replace(/\b\w/g, l => l.toUpperCase())
CapitalizeWords(s) ==
    [i \in 1..Len(s) |->
        IF IsWordChar(s[i]) /\ (i = 1 \/ ~IsWordChar(s[i-1]))
        THEN UpperChar(s[i]) ELSE s[i]]

endsWith(s, suffix) ==
    /\ Len(s) >= Len(suffix)
    /\ SubSeq(s, Len(s) - Len(suffix) + 1, Len(s)) = suffix

RECURSIVE NumToStr(_)
\* decimal rendering of a non-negative number, as in Date.now() + '-'
NumToStr(n) ==
    IF n < 10 THEN <<Digits[n + 1]>>
    ELSE NumToStr(n \div 10) \o <<Digits[(n % 10) + 1]>>

----------------------------------------------------------------------------
(* String literals of the program and of the requests                      *)

GlbExtension == <<".","g","l","b">>

GlbMime == "model/gltf-binary"

ProjectPrefix == <<"P","r","o","j","e","c","t"," ">>

HighwayId == <<"h","i","g","h","w","a","y","-","p","r","o","j","e","c","t","s">>

HighwayName == <<"H","i","g","h","w","a","y"," ","P","r","o","j","e","c","t","s"," ","I","n","c",".">>

HighwayProjectId == <<"h","i","g","h","w","a","y","0","0","1">>

HighwayFilename == <<"1","7","5","8","1","2","1","2","5","7","3","4","6","-","4","6","5","0","_","h","i","g","h","w","a","y","_","a","1","a","_","r","e","v","i","s","e","d","_","7",".","2","4",".","g","l","b">>

HighwayDescription == <<"A","1","A"," ","H","i","g","h","w","a","y"," ","R","e","v","i","s","i","o","n"," ","7",".","2","4">>

\* properties every object literal inherits from Object.prototype
InheritedKeys ==
    { <<"c","o","n","s","t","r","u","c","t","o","r">>,
      <<"t","o","S","t","r","i","n","g">>,
      <<"v","a","l","u","e","O","f">>,
      <<"_","_","p","r","o","t","o","_","_">> }

----------------------------------------------------------------------------
(* The clients object                                                      *)

\* const clients = { 'highway-projects': { ... } }
InitialClients ==
    << [ id |-> HighwayId,
         name |-> HighwayName,
         contact |-> "john@highwayproj.com",
         projects |-> << [ id |-> HighwayProjectId,
                           filename |-> HighwayFilename,
                           description |-> HighwayDescription,
                           uploaded |-> "2024-01-15" ] >> ] >>

HasOwn(obj, k) == \E i \in 1..Len(obj) : obj[i].id = k

IndexOf(obj, k) == CHOOSE i \in 1..Len(obj) : obj[i].id = k

\* obj[k] for an own key
Get(obj, k) == obj[IndexOf(obj, k)]

\* Truthy, but blind to own entries
TruthyInheritedOnly(obj, k) == k \in InheritedKeys

\* truthiness of obj[k]: an own entry, or a property of Object.prototype
Truthy(obj, k) == HasOwn(obj, k) \/ k \in InheritedKeys

\* Put, but adding a further entry even when the key is present
PutAppends(obj, k, v) == Append(obj, v)

\* obj[k] = v: replaces an own entry in place, else appends a new key
Put(obj, k, v) ==
    IF HasOwn(obj, k)
    THEN [obj EXCEPT ![IndexOf(obj, k)] = v]
    ELSE Append(obj, v)

\* delete obj[k]
Delete(obj, k) ==
    IF HasOwn(obj, k)
    THEN LET i == IndexOf(obj, k)
         IN SubSeq(obj, 1, i - 1) \o SubSeq(obj, i + 1, Len(obj))
    ELSE obj

----------------------------------------------------------------------------
(* File store                                                              *)

\* storage.filename: Date.now() + '-' + originalname.replace(/\s+/g, '_')
storageFilename(now, originalname) ==
    NumToStr(now) \o <<"-">> \o ReplaceRuns(originalname, WhitespaceChars, <<"_">>)

\* fs.renameSync(oldPath, newPath) of a file of the active area into backup
renameSync(fs, filename) ==
    [active |-> fs.active \ {filename}, backup |-> fs.backup \cup {filename}]

\* fileFilter, but looking at the declared MIME type only
fileFilterMimeOnly(mimetype, originalname) == mimetype = GlbMime

\* upload.fileFilter
fileFilter(mimetype, originalname) ==
    mimetype = GlbMime \/ endsWith(originalname, GlbExtension)

\* new Date().toISOString().split('T')[0]; every clock value of the model
\* lies within one calendar day
IsoDate(now) == "1970-01-01"

----------------------------------------------------------------------------
(* Registry derivations                                                    *)

\* DeriveClientId, but replacing each whitespace character on its own
DeriveClientIdEachSpace(name) ==
    [i \in 1..Len(name) |-> IF IsSpace(name[i]) THEN "-" ELSE LowerChar(name[i])]

\* name.toLowerCase().replace(/\s+/g, '-')
DeriveClientId(name) == ReplaceRuns(toLowerCase(name), WhitespaceChars, <<"-">>)

\* clientId.replace(/-/g, ' ').replace(/\b\w/g, l => l.toUpperCase())
Humanize(clientId) == CapitalizeWords(ReplaceHyphens(clientId))

\* Object.values(clients).find(c => c.name.toLowerCase() === clientName.toLowerCase())
FindClientByName(cs, clientName) ==
    LET matches == {i \in 1..Len(cs) : toLowerCase(cs[i].name) = toLowerCase(clientName)}
    IN IF matches = {} THEN 0
       ELSE CHOOSE i \in matches : \A j \in matches : i <= j

----------------------------------------------------------------------------
(* Request inputs                                                          *)

AcmeId == <<"a","c","m","e","-","c","o">>

AcmeSpaceId == <<"a","c","m","e"," ","c","o">>

ConstructorId == <<"c","o","n","s","t","r","u","c","t","o","r">>

P1 == <<"p","1">>

P2 == <<"p","2">>

NoFile == [present |-> FALSE]

\* multipart file parts: declared MIME type and original name
FileA ==
    [present |-> TRUE, mimetype |-> GlbMime,
     originalname |-> <<"a"," ","b",".","g","l","b">>]

FileB ==
    [present |-> TRUE, mimetype |-> "application/octet-stream",
     originalname |-> <<"a"," "," ","b",".","g","l","b">>]

FileTxt ==
    [present |-> TRUE, mimetype |-> "text/plain",
     originalname |-> <<"m",".","t","x","t">>]

\* requests to POST /api/admin/upload: the file part and req.body
UploadRequests ==
    { [file |-> FileA, clientId |-> AcmeId, projectId |-> P1, description |-> <<>>],
      [file |-> FileB, clientId |-> AcmeId, projectId |-> P2, description |-> <<"R","e","v">>],
      [file |-> FileA, clientId |-> AcmeSpaceId, projectId |-> ConstructorId, description |-> <<>>],
      [file |-> FileA, clientId |-> ConstructorId, projectId |-> P1, description |-> <<>>],
      [file |-> FileA, clientId |-> <<>>, projectId |-> P1, description |-> <<>>],
      [file |-> FileA, clientId |-> AcmeId, projectId |-> <<>>, description |-> <<>>],
      [file |-> FileTxt, clientId |-> AcmeId, projectId |-> P1, description |-> <<>>],
      [file |-> NoFile, clientId |-> AcmeId, projectId |-> P1, description |-> <<>>] }

\* requests to POST /api/admin/client: req.body
CreateClientRequests ==
    { [name |-> <<"A","C","M","E"," "," ","c","o">>, contact |-> "info@acme.example"],
      [name |-> <<"C","o","n","s","t","r","u","c","t","o","r">>, contact |-> ""],
      [name |-> <<>>, contact |-> ""] }

\* requests to DELETE /api/admin/client/:clientId/project/:projectId
DeleteProjectRequests ==
    { [clientId |-> AcmeId, projectId |-> P1],
      [clientId |-> AcmeId, projectId |-> P2],
      [clientId |-> AcmeSpaceId, projectId |-> ConstructorId],
      [clientId |-> ConstructorId, projectId |-> P1] }

\* requests to DELETE /api/admin/client/:clientId
DeleteClientRequests == {AcmeId, AcmeSpaceId, ConstructorId, HighwayId}

\* requests to GET /api/client/:clientName/project/:number
ResolveRequests ==
    { [clientName |-> <<"a","c","m","e"," ","c","o">>, projectNumber |-> P1],
      [clientName |-> <<"A","C","M","E"," ","C","O">>, projectNumber |-> P2],
      [clientName |-> <<"A","c","m","e"," ","C","o">>, projectNumber |-> ConstructorId],
      [clientName |-> <<"H","I","G","H","W","A","Y"," ","p","r","o","j","e","c","t","s"," ","i","n","c",".">>,
       projectNumber |-> HighwayProjectId] }

----------------------------------------------------------------------------
(* Initial state                                                           *)

\* the seeded model file is in the uploads directory; uploads/backup is new
Init ==
    /\ clients = InitialClients
    /\ active = {HighwayFilename}
    /\ backup = {}
    /\ clock = 1
    /\ stored = <<>>
    /\ linked = {}
    /\ req = [op |-> "none"]
    /\ res = [status |-> 0]

\* Date.now() advances between requests
Tick ==
    /\ clock < MaxClock
    /\ clock' = clock + 1
    /\ req' = [op |-> "tick"]
    /\ res' = [status |-> 0]
    /\ UNCHANGED <<clients, active, backup, stored, linked>>

----------------------------------------------------------------------------
(* POST /api/admin/upload                                                  *)

NewClient(clientId) ==
    [id |-> clientId, name |-> Humanize(clientId), contact |-> "", projects |-> <<>>]

\* if (!clients[clientId]) clients[clientId] = { ... }
EnsureClient(cs, clientId) ==
    IF Truthy(cs, clientId) THEN cs ELSE Put(cs, clientId, NewClient(clientId))

NewProject(projectId, filename, description, now) ==
    [ id |-> projectId,
      filename |-> filename,
      description |-> IF description = <<>> THEN ProjectPrefix \o projectId ELSE description,
      uploaded |-> IsoDate(now) ]

\* clients[clientId].projects[projectId] = { ... } on an own client
SetProject(cs, clientId, project) ==
    [cs EXCEPT ![IndexOf(cs, clientId)].projects = Put(@, project.id, project)]

\* the try block of the upload handler, for a clientId that resolves to an
\* own entry after EnsureClient
LinkProject(cs, clientId, projectId, filename, description, now) ==
    SetProject(EnsureClient(cs, clientId), clientId,
               NewProject(projectId, filename, description, now))

Upload(file, clientId, projectId, description) ==
    LET filename == IF file.present THEN storageFilename(clock, file.originalname) ELSE <<>>
    IN
    /\ req' = [ op |-> "upload", file |-> file, clientId |-> clientId,
                projectId |-> projectId, description |-> description ]
    /\ IF file.present /\ ~fileFilter(file.mimetype, file.originalname)
       THEN \* multer passes the filter's Error on; the handler never runs
            /\ res' = [status |-> 500, error |-> "Only .glb files are allowed"]
            /\ UNCHANGED <<clients, active, backup, clock, stored, linked>>
       ELSE IF ~file.present
       THEN /\ res' = [status |-> 400, error |-> "No file uploaded or invalid file type"]
            /\ UNCHANGED <<clients, active, backup, clock, stored, linked>>
       ELSE \* the file is on disk before the handler runs
            /\ Len(stored) < MaxUploads
            /\ active' = active \cup {filename}
            /\ stored' = Append(stored, filename)
            /\ UNCHANGED <<backup, clock>>
            /\ IF clientId = <<>> \/ projectId = <<>>
               THEN /\ res' = [status |-> 400, error |-> "Client ID and Project ID are required"]
                    /\ UNCHANGED <<clients, linked>>
               ELSE IF ~HasOwn(clients, clientId) /\ clientId \in InheritedKeys
               THEN \* clients[clientId].projects is undefined: TypeError, caught
                    /\ res' = [status |-> 500, error |-> "Failed to process upload"]
                    /\ UNCHANGED <<clients, linked>>
               ELSE /\ clients' = LinkProject(clients, clientId, projectId, filename, description, clock)
                    /\ linked' = linked \cup {filename}
                    /\ res' = [ status |-> 200, filename |-> filename,
                                clientId |-> clientId, projectId |-> projectId ]

----------------------------------------------------------------------------
(* GET /api/admin/clients                                                  *)

ListClients ==
    /\ req' = [op |-> "list"]
    /\ res' = [ status |-> 200,
                clients |-> [i \in 1..Len(clients) |->
                    [ id |-> clients[i].id, name |-> clients[i].name,
                      contact |-> clients[i].contact, projects |-> clients[i].projects,
                      projectCount |-> Len(clients[i].projects) ]] ]
    /\ UNCHANGED <<clients, active, backup, clock, stored, linked>>

----------------------------------------------------------------------------
(* POST /api/admin/client                                                  *)

CreateClient(name, contact) ==
    LET clientId == DeriveClientId(name)
    IN
    /\ req' = [op |-> "createClient", name |-> name, contact |-> contact]
    /\ UNCHANGED <<active, backup, clock, stored, linked>>
    /\ IF name = <<>>
       THEN /\ res' = [status |-> 400, error |-> "Client name is required"]
            /\ UNCHANGED clients
       ELSE IF Truthy(clients, clientId)
       THEN /\ res' = [status |-> 400, error |-> "Client already exists"]
            /\ UNCHANGED clients
       ELSE /\ clients' = Put(clients, clientId,
                              [id |-> clientId, name |-> name, contact |-> contact, projects |-> <<>>])
            /\ res' = [status |-> 200, clientId |-> clientId]

----------------------------------------------------------------------------
(* DELETE /api/admin/client/:clientId/project/:projectId                   *)

\* RemoveProject, but emptying the client's projects
RemoveProjectClearsAll(cs, clientId, projectId) ==
    [cs EXCEPT ![IndexOf(cs, clientId)].projects = <<>>]

\* RemoveProject, but leaving the project in place
RemoveProjectKeeps(cs, clientId, projectId) == cs

\* delete client.projects[projectId]
RemoveProject(cs, clientId, projectId) ==
    [cs EXCEPT ![IndexOf(cs, clientId)].projects = Delete(@, projectId)]

DeleteProject(clientId, projectId, renameFails) ==
    /\ req' = [op |-> "deleteProject", clientId |-> clientId, projectId |-> projectId]
    /\ UNCHANGED <<clock, stored, linked>>
    /\ IF ~Truthy(clients, clientId)
       THEN /\ res' = [status |-> 404, error |-> "Client not found"]
            /\ UNCHANGED <<clients, active, backup>>
       ELSE IF ~HasOwn(clients, clientId)
       THEN \* client.projects is undefined: TypeError outside the try block
            /\ res' = [status |-> 500, error |-> "TypeError"]
            /\ UNCHANGED <<clients, active, backup>>
       ELSE IF ~Truthy(Get(clients, clientId).projects, projectId)
       THEN /\ res' = [status |-> 404, error |-> "Project not found"]
            /\ UNCHANGED <<clients, active, backup>>
       ELSE IF ~HasOwn(Get(clients, clientId).projects, projectId)
       THEN \* filename is undefined: path.join throws inside the try block
            /\ res' = [status |-> 500, error |-> "Failed to move project to backup"]
            /\ UNCHANGED <<clients, active, backup>>
       ELSE LET filename == Get(Get(clients, clientId).projects, projectId).filename
            IN IF filename \in active /\ renameFails
               THEN \* fs.renameSync throws
                    /\ res' = [ status |-> 500, error |-> "Failed to move project to backup",
                                renameThrew |-> TRUE ]
                    /\ UNCHANGED <<clients, active, backup>>
               ELSE /\ IF filename \in active
                       THEN LET fs == renameSync([active |-> active, backup |-> backup], filename)
                            IN /\ active' = fs.active
                               /\ backup' = fs.backup
                       ELSE UNCHANGED <<active, backup>>
                    /\ clients' = RemoveProject(clients, clientId, projectId)
                    /\ res' = [ status |-> 200,
                                moved |-> (filename \in active),
                                remainingProjects |->
                                    Len(Get(clients', clientId).projects) ]

----------------------------------------------------------------------------
(* DELETE /api/admin/client/:clientId                                      *)

RECURSIVE MoveAll(_, _, _, _)
\* Object.values(client.projects).forEach(...) from the i-th project on;
\* failAt is the index of the project whose fs.renameSync throws (0: none)
MoveAll(projects, i, fs, failAt) ==
    IF i > Len(projects)
    THEN [active |-> fs.active, backup |-> fs.backup, threw |-> FALSE]
    ELSE LET filename == projects[i].filename
         IN IF filename \in fs.active
            THEN IF failAt = i
                 THEN [active |-> fs.active, backup |-> fs.backup, threw |-> TRUE]
                 ELSE MoveAll(projects, i + 1, renameSync(fs, filename), failAt)
            ELSE MoveAll(projects, i + 1, fs, failAt)

\* RemoveClient, but leaving the client in place
RemoveClientKeeps(cs, clientId) == cs

\* delete clients[clientId]
RemoveClient(cs, clientId) == Delete(cs, clientId)

DeleteClient(clientId, failAt) ==
    /\ req' = [op |-> "deleteClient", clientId |-> clientId]
    /\ UNCHANGED <<clock, stored, linked>>
    /\ IF ~Truthy(clients, clientId)
       THEN /\ res' = [status |-> 400, error |-> "Client not found"]
            /\ UNCHANGED <<clients, active, backup>>
       ELSE IF ~HasOwn(clients, clientId)
       THEN \* Object.values(undefined) throws inside the try block
            /\ res' = [status |-> 500, error |-> "Failed to move client projects to backup"]
            /\ UNCHANGED <<clients, active, backup>>
       ELSE LET moved == MoveAll(Get(clients, clientId).projects, 1,
                                 [active |-> active, backup |-> backup], failAt)
            IN /\ active' = moved.active
               /\ backup' = moved.backup
               /\ IF moved.threw
                  THEN /\ res' = [ status |-> 500,
                                   error |-> "Failed to move client projects to backup",
                                   renameThrew |-> TRUE ]
                       /\ UNCHANGED clients
                  ELSE /\ clients' = RemoveClient(clients, clientId)
                       /\ res' = [status |-> 200]

----------------------------------------------------------------------------
(* GET /api/client/:clientName/project/:number                             *)

\* the outcome of the lookup handler in a given registry and active area
ResolveResult(cs, act, clientName, projectNumber) ==
    LET c == FindClientByName(cs, clientName)
    IN IF c = 0
       THEN [status |-> 404, error |-> "Client not found"]
       ELSE IF ~Truthy(cs[c].projects, projectNumber)
       THEN [status |-> 404, error |-> "Project not found"]
       ELSE IF ~HasOwn(cs[c].projects, projectNumber)
       THEN \* project.filename is undefined: path.join throws
            [status |-> 500, error |-> "TypeError"]
       ELSE LET project == Get(cs[c].projects, projectNumber)
            IN IF project.filename \in act
               THEN [ status |-> 200,
                      modelPath |-> project.filename,
                      clientName |-> cs[c].name,
                      projectName |-> projectNumber,
                      description |-> project.description ]
               ELSE [status |-> 404, error |-> "Model file not found"]

Resolve(clientName, projectNumber) ==
    /\ req' = [op |-> "resolve", clientName |-> clientName, projectNumber |-> projectNumber]
    /\ res' = ResolveResult(clients, active, clientName, projectNumber)
    /\ UNCHANGED <<clients, active, backup, clock, stored, linked>>

----------------------------------------------------------------------------
(* Specification                                                           *)

Next ==
    \/ Tick
    \/ \E r \in UploadRequests : Upload(r.file, r.clientId, r.projectId, r.description)
    \/ ListClients
    \/ \E r \in CreateClientRequests : CreateClient(r.name, r.contact)
    \/ \E r \in DeleteProjectRequests, renameFails \in BOOLEAN :
          DeleteProject(r.clientId, r.projectId, renameFails)
    \/ \E clientId \in DeleteClientRequests :
          \E failAt \in 0..(IF HasOwn(clients, clientId)
                            THEN Len(Get(clients, clientId).projects) ELSE 0) :
             DeleteClient(clientId, failAt)
    \/ \E r \in ResolveRequests : Resolve(r.clientName, r.projectNumber)

Spec == Init /\ [][Next]_vars

----------------------------------------------------------------------------
(* Client id derivation on its own: one createClient request on the        *)
(* initial registry, its name drawn from every string over SlugAlphabet of *)
(* at most MaxNameLen characters                                           *)

SlugAlphabet == {"A", "b", " ", "\t", "&", "-"}

SlugNames == UNION {[1..n -> SlugAlphabet] : n \in 0..MaxNameLen}

SlugNext == req.op = "none" /\ \E name \in SlugNames : CreateClient(name, "")

SpecSlug == Init /\ [][SlugNext]_vars

----------------------------------------------------------------------------
(* The upload validator on its own: one upload request on the initial      *)
(* registry, its file part drawn from every MIME type of FilterMimes and    *)
(* every original name over FilterAlphabet of at most MaxFileNameLen        *)
(* characters, and the text file of the requests above                      *)

FilterMimes == {GlbMime, "model/gltf+json", "application/octet-stream", "text/plain"}

FilterAlphabet == {".", "g", "l", "b"}

FilterFiles ==
    {FileTxt} \cup
    { [present |-> TRUE, mimetype |-> m, originalname |-> n] :
        m \in FilterMimes,
        n \in UNION {[1..k -> FilterAlphabet] : k \in 1..MaxFileNameLen} }

FilterNext == req.op = "none" /\ \E file \in FilterFiles : Upload(file, AcmeId, P1, <<>>)

SpecFilter == Init /\ [][FilterNext]_vars

----------------------------------------------------------------------------
(* Properties                                                              *)

\* the client entry with own key clientId has an own project projectId
OwnProject(cs, clientId, projectId) ==
    /\ HasOwn(cs, clientId)
    /\ HasOwn(Get(cs, clientId).projects, projectId)

\* the handler's response records that fs.renameSync threw
RenameThrew(r) == "renameThrew" \in DOMAIN r

\* C1: every Project in the Registry references a filename that is present
\* in the active area.
C1_ProjectFilesActive ==
    \A i \in 1..Len(clients) :
        \A j \in 1..Len(clients[i].projects) :
            clients[i].projects[j].filename \in active

\* C2: the stored filename of an accepted upload differs from every filename
\* stored before it in the same process lifetime.
C2_StoredFilenamesUnique ==
    \A i, j \in 1..Len(stored) : i # j => stored[i] # stored[j]

C4_DeletedClientNameNotFound ==
    [][ (req'.op = "deleteClient" /\ res'.status = 200)
            => LET name == Get(clients, req'.clientId).name
               IN /\ ~HasOwn(clients', req'.clientId)
                  /\ \A n \in {name, toLowerCase(name), toUpperCase(name)} :
                        FindClientByName(clients', n) = 0 ]_vars

\* some client other than clientId has the same display name, ignoring case
NameShared(cs, clientId) ==
    \E i \in 1..Len(cs) :
        /\ cs[i].id # clientId
        /\ toLowerCase(cs[i].name) = toLowerCase(Get(cs, clientId).name)

\* C4 (amended): after a successful deleteClient(c), c and its projects are
\* absent from the Registry, and a lookup by its display name, in any letter
\* case, finds no client unless another client has the same display name.
C4_DeletedClientNameNotFoundUnlessShared ==
    [][ (req'.op = "deleteClient" /\ res'.status = 200)
            => LET name == Get(clients, req'.clientId).name
               IN /\ ~HasOwn(clients', req'.clientId)
                  /\ Len(clients') = Len(clients) - 1
                  /\ ~NameShared(clients, req'.clientId)
                        => \A n \in {name, toLowerCase(name), toUpperCase(name)} :
                              /\ FindClientByName(clients', n) = 0
                              /\ ResolveResult(clients', active', n, P1)
                                    = [status |-> 404, error |-> "Client not found"] ]_vars

\* a client that had been auto-created under a name nobody shares has just
\* been deleted
C4_Witness ==
    /\ req.op = "deleteClient"
    /\ res.status = 200
    /\ req.clientId = AcmeId
    /\ ~HasOwn(clients, AcmeId)
    /\ FindClientByName(clients, Humanize(AcmeId)) = 0

C6_DeletedProjectMovedAndNotFound ==
    [][ (/\ req'.op = "deleteProject"
         /\ res'.status = 200
         /\ Get(Get(clients, req'.clientId).projects, req'.projectId).filename \in active)
            => LET client == Get(clients, req'.clientId)
                   filename == Get(client.projects, req'.projectId).filename
               IN /\ filename \notin active'
                  /\ filename \in backup'
                  /\ ResolveResult(clients', active', client.name, req'.projectId).status = 404 ]_vars

\* C7: the file of every project ever linked is in exactly one of the active
\* area and the backup area.
C7_LinkedFileInExactlyOneArea ==
    \A filename \in linked : (filename \in active) # (filename \in backup)

\* C8: linking a project under a clientId that is not in the Registry adds
\* exactly one client, keyed by that id, named by the humanized id, with
\* empty contact and exactly the linked project, and changes no other client.
C8_LinkUnknownClientCreatesIt ==
    [][ (/\ req'.op = "upload"
         /\ req'.file.present
         /\ fileFilter(req'.file.mimetype, req'.file.originalname)
         /\ req'.clientId # <<>>
         /\ req'.projectId # <<>>
         /\ ~HasOwn(clients, req'.clientId))
            => /\ Len(clients') = Len(clients) + 1
               /\ SubSeq(clients', 1, Len(clients)) = clients
               /\ LET c == clients'[Len(clients')]
                  IN /\ c.id = req'.clientId
                     /\ c.name = Humanize(req'.clientId)
                     /\ c.contact = ""
                     /\ Len(c.projects) = 1
                     /\ c.projects[1].id = req'.projectId ]_vars

\* C9: createClient fails with "Client already exists" whenever the id
\* derived from the name is in the Registry, and then the Registry is
\* unchanged.
C9_DuplicateClientRejected ==
    [][ (/\ req'.op = "createClient"
         /\ req'.name # <<>>
         /\ HasOwn(clients, DeriveClientId(req'.name)))
            => /\ res' = [status |-> 400, error |-> "Client already exists"]
               /\ clients' = clients ]_vars

\* createClient has just been rejected for a client that linkProject had
\* auto-created with another name and contact, and that has a project
C9_Witness ==
    /\ req.op = "createClient"
    /\ res = [status |-> 400, error |-> "Client already exists"]
    /\ HasOwn(clients, DeriveClientId(req.name))
    /\ LET c == Get(clients, DeriveClientId(req.name))
       IN /\ c.name # req.name
          /\ c.contact # req.contact
          /\ Len(c.projects) >= 1

\* the characters of the model that are neither letters nor digits
NonAlphaNumericChars == {c \in SlugAlphabet \cup WhitespaceChars : ~IsAlphaNumeric(c)}

\* C10 (as stated): the id createClient derives is the name lowercased with
\* every maximal run of non-alphanumeric characters replaced by one hyphen.
C10_IdCollapsesNonAlphaNumericRuns ==
    (req.op = "createClient" /\ res.status = 200)
        => res.clientId = ReplaceRuns(toLowerCase(req.name), NonAlphaNumericChars, <<"-">>)

RECURSIVE Flatten(_)
Flatten(ss) == IF ss = <<>> THEN <<>> ELSE Head(ss) \o Flatten(Tail(ss))

\* the name lowercased, the first character of every whitespace run turned
\* into a hyphen and the rest of the run dropped
WhitespaceSlug(name) ==
    Flatten([i \in 1..Len(name) |->
        IF ~IsSpace(name[i]) THEN <<LowerChar(name[i])>>
        ELSE IF i = 1 \/ ~IsSpace(name[i-1]) THEN <<"-">>
        ELSE <<>>])

\* C10 (amended): the id createClient derives is the name lowercased with
\* every maximal run of whitespace replaced by one hyphen; other
\* non-alphanumeric characters are kept.
C10_IdCollapsesWhitespaceRuns ==
    (req.op = "createClient" /\ res.status = 200)
        => /\ res.clientId = WhitespaceSlug(req.name)
           /\ HasOwn(clients, WhitespaceSlug(req.name))

\* a client has been created from a name with an upper-case letter followed
\* by a run of two whitespace characters
C10_Witness ==
    /\ req.op = "createClient"
    /\ res.status = 200
    /\ req.name = <<"A", " ", "\t">>
    /\ res.clientId = <<"a", "-">>

\* the last four characters of the name are ".glb"
HasGlbSuffix(name) ==
    /\ Len(name) >= 4
    /\ name[Len(name) - 3] = "."
    /\ name[Len(name) - 2] = "g"
    /\ name[Len(name) - 1] = "l"
    /\ name[Len(name)] = "b"

\* C11: an upload is accepted if and only if its declared MIME type is
\* model/gltf-binary or its original name ends in .glb; a rejected upload
\* writes no file and leaves the active area and the Registry unchanged.
C11_AcceptedIffGlb ==
    [][ (req'.op = "upload" /\ req'.file.present)
            => IF req'.file.mimetype = "model/gltf-binary" \/ HasGlbSuffix(req'.file.originalname)
               THEN /\ Len(stored') = Len(stored) + 1
                    /\ stored'[Len(stored')] \in active'
               ELSE /\ res'.error = "Only .glb files are allowed"
                    /\ stored' = stored
                    /\ active' = active
                    /\ backup' = backup
                    /\ clients' = clients ]_vars

\* model.txt declared as text/plain has just been rejected, with nothing
\* written and the Registry as it was
C11_Witness ==
    /\ req.op = "upload"
    /\ req.file = FileTxt
    /\ res.error = "Only .glb files are allowed"
    /\ stored = <<>>
    /\ active = {HighwayFilename}
    /\ clients = InitialClients

\* the clients whose display name equals clientName up to letter case
NameMatches(cs, clientName) ==
    {i \in 1..Len(cs) : toLowerCase(cs[i].name) = toLowerCase(clientName)}

\* C12: the lookup by client name and project id matches the name without
\* regard to case and answers with exactly one of: client not found when no
\* name matches, project not found when the matched client has no such
\* project, model file not found when the project's file is not in the
\* active area, and otherwise the file location, the client's display name
\* and the description; it never throws and changes neither the Registry
\* nor the file areas.
C12_ResolveOutcome ==
    [][ req'.op = "resolve"
            => /\ clients' = clients /\ active' = active /\ backup' = backup
               /\ LET matches == NameMatches(clients, req'.clientName)
                  IN IF matches = {}
                     THEN res' = [status |-> 404, error |-> "Client not found"]
                     ELSE \E i \in matches :
                            IF ~HasOwn(clients[i].projects, req'.projectNumber)
                            THEN res' = [status |-> 404, error |-> "Project not found"]
                            ELSE LET project == Get(clients[i].projects, req'.projectNumber)
                                 IN IF project.filename \notin active
                                    THEN res' = [status |-> 404, error |-> "Model file not found"]
                                    ELSE res' = [ status |-> 200,
                                                  modelPath |-> project.filename,
                                                  clientName |-> clients[i].name,
                                                  projectName |-> req'.projectNumber,
                                                  description |-> project.description ] ]_vars

\* C13: no request observes a half-applied mutation: a delete of a client
\* that leaves the client in the Registry has relocated none of its files.
C13_CascadeAllOrNothing ==
    [][ (req'.op = "deleteClient" /\ HasOwn(clients', req'.clientId))
            => (active' = active /\ backup' = backup) ]_vars

\* C14: deleting a project of an absent client answers client not found,
\* deleting an absent project of a present client answers project not
\* found, deleting an absent client answers client not found; in each case
\* the Registry and both file areas are unchanged.
C14_DeleteOfAbsentIsNotFound ==
    [][ /\ (req'.op = "deleteProject" /\ ~HasOwn(clients, req'.clientId))
            => /\ res' = [status |-> 404, error |-> "Client not found"]
               /\ clients' = clients /\ active' = active /\ backup' = backup
        /\ (req'.op = "deleteProject" /\ HasOwn(clients, req'.clientId)
                /\ ~OwnProject(clients, req'.clientId, req'.projectId))
            => /\ res' = [status |-> 404, error |-> "Project not found"]
               /\ clients' = clients /\ active' = active /\ backup' = backup
        /\ (req'.op = "deleteClient" /\ ~HasOwn(clients, req'.clientId))
            => /\ res' = [status |-> 400, error |-> "Client not found"]
               /\ clients' = clients /\ active' = active /\ backup' = backup ]_vars

\* C15: an accepted upload for a clientId already in the Registry adds no
\* client and leaves that client's name, contact and other projects, and
\* every other client, unchanged; when the projectId already exists it is
\* overwritten without error: the project then references the newly
\* stored filename and the client's project count is unchanged.
C15_LinkToExistingClient ==
    [][ ( /\ req'.op = "upload"
          /\ Len(stored') = Len(stored) + 1
          /\ req'.clientId # <<>> /\ req'.projectId # <<>>
          /\ HasOwn(clients, req'.clientId) )
            => LET i == IndexOf(clients, req'.clientId)
                   old == clients[i].projects
                   new == clients'[i].projects
                   filename == stored'[Len(stored')]
               IN /\ res'.status = 200
                  /\ Len(clients') = Len(clients)
                  /\ \A k \in 1..Len(clients) : k # i => clients'[k] = clients[k]
                  /\ clients'[i].id = clients[i].id
                  /\ clients'[i].name = clients[i].name
                  /\ clients'[i].contact = clients[i].contact
                  /\ \A j \in 1..Len(old) : old[j].id # req'.projectId => new[j] = old[j]
                  /\ HasOwn(old, req'.projectId)
                        => /\ Len(new) = Len(old)
                           /\ new[IndexOf(old, req'.projectId)].id = req'.projectId
                           /\ new[IndexOf(old, req'.projectId)].filename = filename ]_vars

\* a second upload has just overwritten a project: the client has a single
\* project, which references the second stored file, and the first stored
\* file, once linked, is referenced by no project
C15_Witness ==
    /\ req.op = "upload"
    /\ res.status = 200
    /\ Len(stored) = 2
    /\ stored[1] # stored[2]
    /\ stored[1] \in linked
    /\ HasOwn(clients, req.clientId)
    /\ Len(Get(clients, req.clientId).projects) = 1
    /\ Get(clients, req.clientId).projects[1].id = req.projectId
    /\ Get(clients, req.clientId).projects[1].filename = stored[2]
    /\ \A i \in 1..Len(clients) : \A j \in 1..Len(clients[i].projects) :
          clients[i].projects[j].filename # stored[1]

\* C16: an upload whose file is accepted but whose clientId or projectId is
\* missing or empty leaves the Registry unchanged and leaves no newly
\* stored file in the active area.
C16_MissingIdsLeaveNoFile ==
    [][ ( /\ req'.op = "upload"
          /\ Len(stored') = Len(stored) + 1
          /\ (req'.clientId = <<>> \/ req'.projectId = <<>>) )
            => (clients' = clients /\ active' = active) ]_vars

\* some project of the Registry references filename
Referenced(cs, filename) ==
    \E i \in 1..Len(cs) : \E j \in 1..Len(cs[i].projects) :
        cs[i].projects[j].filename = filename

\* C17: every file of the active area that was stored by a successful
\* upload is referenced by some project of the Registry.
C17_LinkedActiveFilesReferenced ==
    \A filename \in linked : filename \in active => Referenced(clients, filename)

====
